---------------------------- MODULE Spec2Model ----------------------------
(***************************************************************************)
(* A model of the ft-scraper pipeline.                                     *)
(*                                                                         *)
(* Part 1, the acquisition scheduler: scripts/run_article_scraper.py       *)
(* main() (readiness query, task loading, scrape_articles, final save,     *)
(* KeyboardInterrupt handling), ArticleScraper.scrape_articles (thread     *)
(* pool fan-out, as_completed fan-in, periodic checkpoint), and            *)
(* FileHandler.save_json as the sequence of file-system effects a          *)
(* concurrent reader of the checkpoint file can observe.                   *)
(*                                                                         *)
(* Part 2, the sitemap resolver: SitemapScraper.scrape_sitemap and         *)
(* _process_sitemap_index, one thread pool per sitemap index.              *)
(*                                                                         *)
(* Part 3, the task loader: ArticleScraper.load_article_urls with          *)
(* _extract_article_year and _parse_article_date, applied to the records   *)
(* of a sitemap data file.                                                 *)
(*                                                                         *)
(* Part 4, single calls of functions without shared state:                 *)
(* process_single_article, FileHandler.save_json / load_json /             *)
(* analyze_json_data and SitemapScraper._fetch_sitemap_content.            *)
(***************************************************************************)
EXTENDS Naturals, Integers, Sequences, FiniteSets, TLC

\* ------------------------------------------------------------ bounds
MaxTasks == 3
MaxWorkers == 2
MaxCadence == 2
MaxUrls == 3
MaxRecords == 3
MaxNesting == 2

\* ------------------------------------------------- scheduler: state
VARIABLES
    articles,         \* the task list handed to scrape_articles: per task, what its collaborators answer
    max_workers,      \* ArticleScraper.max_workers
    cadence,          \* config.settings.CHECKPOINT_FREQUENCY
    checkpoint_file,  \* whether scrape_articles got a checkpoint path
    pc,               \* position of the main thread
    input_file,       \* what load_json finds at the sitemap data file's path
    health,           \* the answer to the readiness query ("none" before it is made)
    submitted,        \* number of tasks submitted to the executor so far
    queue,            \* the executor's work queue (FIFO of task indices)
    running,          \* per worker thread: the task it runs, 0 when idle
    requests,         \* per task: fetch-and-render requests issued
    future,           \* per task: the result its future holds, NoResult until done
    yielded,          \* tasks as_completed has handed to the main loop
    results,          \* the results list of scrape_articles
    ckpt,             \* the checkpoint file as a reader finds it
    lastGood,         \* what the last completed checkpoint write wrote
    saveResult,       \* outcome of the save_checkpoint call of the current iteration
    writeFailed,      \* whether some checkpoint write raised so far
    interrupted,      \* whether KeyboardInterrupt was raised in the main thread
    lock,             \* ArticleScraper.lock: "free", or the thread that holds it
    worker_last,      \* per worker thread: what it did last ("none", "task" or "delay")
    status,           \* how main() ended ("running" until then)
    output            \* the final output file as a reader finds it

schedVars == <<input_file, articles, max_workers, cadence, checkpoint_file, pc, health,
               submitted, queue, running, requests, future, yielded, results,
               ckpt, lastGood, saveResult, writeFailed, interrupted,
               lock, worker_last, status, output>>

\* -------------------------------------------------- resolver: state
VARIABLES
    sitemaps,         \* per sitemap URL: the document served there
    pool_size,        \* SitemapScraper.max_workers
    calls,            \* per chain of nested scrape_sitemap calls (root URL first): its state
    headers,          \* SitemapScraper.headers: the names of the headers it holds
    sent_headers      \* per call: the names of the headers its request carried

resVars == <<sitemaps, pool_size, calls, headers, sent_headers>>

\* ---------------------------------------------------- loader: state
VARIABLES
    raw_data,         \* the records load_json returned for the sitemap data file
    min_year,         \* load_article_urls' min_year
    limit,            \* load_article_urls' limit
    utc_offset,       \* the host's local time zone, in seconds east of UTC
    years,            \* per record of raw_data: the year derived from it
    task_list,        \* the list load_article_urls returned
    done_steps        \* which of "derive" and "load" have run

loadVars == <<raw_data, min_year, limit, utc_offset, years, task_list, done_steps>>

\* ----------------------------------------------- single calls: state
VARIABLES
    call,             \* the function called and its arguments: [fn, input]
    ret               \* what the call returned, NotReturned until it has

fnVars == <<call, ret>>

vars == <<schedVars, resVars, loadVars, fnVars>>

N == Len(articles)
Tasks == 1..N
Workers == 1..max_workers

NoResult == [url |-> 0, success |-> FALSE, error |-> "pending"]
NoFile == [exists |-> FALSE, complete |-> FALSE, data |-> <<>>]

\* --------------------------------------- collaborators' answers
\* What the rendering service can answer to POST /scrape.
RenderOutcomes == {"html", "timeout", "http_error", "api_fail", "empty_html"}
\* What the extractor can return for a page.
ExtractOutcomes == {"text", "short_text", "no_text", "extract_exc"}
\* What GET /health can answer.
HealthResponses == {"ready", "not_ready", "http_error", "unreachable"}

\* The answers the scheduler runs are checked with: one per failure class.
TaskEnvs ==
    { [render |-> "html", extract |-> "text"],
      [render |-> "timeout", extract |-> "text"],
      [render |-> "api_fail", extract |-> "text"],
      [render |-> "html", extract |-> "no_text"] }

\* ------------------------------------------- ArticleScraper, pure parts

\* check_api_health: True only for HTTP 200 with browserReady set.
CheckApiHealthLax(resp) == resp \in {"ready", "not_ready"}

CheckApiHealth(resp) ==
    CASE resp = "ready" -> TRUE
      [] resp = "not_ready" -> FALSE
      [] resp = "http_error" -> FALSE
      [] resp = "unreachable" -> FALSE

\* Python's None as an API response.
None == [none |-> TRUE, success |-> FALSE, html |-> ""]

\* scrape_article_html: the response dict, or None on a non-200 status or a
\* RequestException (timeout, connection error).
ScrapeArticleHtml(render) ==
    CASE render = "html" -> [none |-> FALSE, success |-> TRUE, html |-> "page"]
      [] render = "empty_html" -> [none |-> FALSE, success |-> TRUE, html |-> ""]
      [] render = "api_fail" -> [none |-> FALSE, success |-> FALSE, html |-> ""]
      [] render = "http_error" -> None
      [] render = "timeout" -> None

\* TextExtractor.extract_from_html: the text and the extractor's own flag.
ExtractFromHtml(extract) ==
    CASE extract = "text" -> [text |-> "article text", extraction_success |-> TRUE]
      [] extract = "short_text" -> [text |-> "short", extraction_success |-> FALSE]
      [] extract = "no_text" -> [text |-> "No text extracted", extraction_success |-> FALSE]
      [] extract = "extract_exc" -> [text |-> "Failed to extract text:", extraction_success |-> FALSE]

CreateFailedResult(url, error) == [url |-> url, success |-> FALSE, error |-> error]

CreateSuccessfulResult(url) == [url |-> url, success |-> TRUE, error |-> ""]

ProcessSingleArticleNoTextCheck(url, env) ==
    LET api_response == ScrapeArticleHtml(env.render)
    IN  IF api_response.none \/ ~api_response.success
        THEN CreateFailedResult(url, "Failed to get HTML from API")
        ELSE IF api_response.html = ""
        THEN CreateFailedResult(url, "Empty HTML content from API")
        ELSE CreateSuccessfulResult(url)

\* process_single_article, steps 1 to 4.
ProcessSingleArticle(url, env) ==
    LET api_response == ScrapeArticleHtml(env.render)
    IN  IF api_response.none \/ ~api_response.success
        THEN CreateFailedResult(url, "Failed to get HTML from API")
        ELSE IF api_response.html = ""
        THEN CreateFailedResult(url, "Empty HTML content from API")
        ELSE LET extracted_data == ExtractFromHtml(env.extract)
             IN  IF \/ extracted_data.text = "No text extracted"
                    \/ extracted_data.text = "Failed to extract text:"
                 THEN CreateFailedResult(url, "Failed to extract meaningful text with newspaper4k")
                 ELSE CreateSuccessfulResult(url)

\* ------------------------------------------------ scheduler: actions

\* The sitemap data file: a JSON array that load_json returns, no file at the
\* path, or a file that json.load rejects. load_json returns None for the
\* last two and load_article_urls then returns [].
InputFiles == {"loaded", "missing", "malformed"}

SchedInit ==
    /\ input_file \in InputFiles
    /\ articles \in UNION { [1..n -> TaskEnvs] : n \in 0..MaxTasks }
    /\ input_file # "loaded" => articles = <<>>
    /\ max_workers \in 1..MaxWorkers
    /\ cadence \in 1..MaxCadence
    /\ checkpoint_file \in BOOLEAN
    /\ pc = "health"
    /\ health = "none"
    /\ submitted = 0
    /\ queue = <<>>
    /\ running = [w \in 1..max_workers |-> 0]
    /\ requests = [t \in DOMAIN articles |-> 0]
    /\ future = [t \in DOMAIN articles |-> NoResult]
    /\ yielded = {}
    /\ results = <<>>
    /\ ckpt = NoFile
    /\ lastGood = <<>>
    /\ saveResult = "none"
    /\ writeFailed = FALSE
    /\ interrupted = FALSE
    /\ lock = "free"
    /\ worker_last = [w \in 1..max_workers |-> "none"]
    /\ status = "running"
    /\ output = NoFile

\* main(): the readiness query; a service that is not ready ends the run.
MainHealth ==
    /\ pc = "health"
    /\ \E resp \in HealthResponses :
          /\ health' = resp
          /\ IF CheckApiHealth(resp)
             THEN pc' = "load" /\ status' = status
             ELSE pc' = "exit" /\ status' = "not_ready"
    /\ UNCHANGED <<fnVars, loadVars, resVars, input_file, lock, worker_last, articles, max_workers, cadence, checkpoint_file, submitted,
                   queue, running, requests, future, yielded, results, ckpt,
                   lastGood, saveResult, writeFailed, interrupted, output>>

\* main(): load_article_urls; an empty task list ends the run.
MainLoad ==
    /\ pc = "load"
    /\ IF input_file # "loaded" \/ N = 0
       THEN pc' = "exit" /\ status' = "no_articles"
       ELSE pc' = "submit" /\ status' = status
    /\ UNCHANGED <<fnVars, loadVars, resVars, input_file, lock, worker_last, articles, max_workers, cadence, checkpoint_file, health,
                   submitted, queue, running, requests, future, yielded,
                   results, ckpt, lastGood, saveResult, writeFailed,
                   interrupted, output>>

\* scrape_articles: executor.submit of the next task of the list.
Submit ==
    /\ pc = "submit"
    /\ submitted < N
    /\ submitted' = submitted + 1
    /\ queue' = Append(queue, submitted + 1)
    /\ pc' = IF submitted + 1 = N THEN "wait" ELSE "submit"
    /\ UNCHANGED <<fnVars, loadVars, resVars, input_file, lock, worker_last, articles, max_workers, cadence, checkpoint_file, health,
                   running, requests, future, yielded, results, ckpt, lastGood,
                   saveResult, writeFailed, interrupted, status, output>>

\* A pool thread takes the oldest queued task and issues its render request.
\* The pool's threads run whatever is queued until the queue is empty, also
\* while the main thread waits in the executor's shutdown.
WorkerStart(w) ==
    /\ running[w] = 0
    /\ queue # <<>>
    /\ running' = [running EXCEPT ![w] = Head(queue)]
    /\ queue' = Tail(queue)
    /\ requests' = [requests EXCEPT ![Head(queue)] = @ + 1]
    /\ UNCHANGED <<fnVars, loadVars, resVars, input_file, lock, worker_last, articles, max_workers, cadence, checkpoint_file, pc, health,
                   submitted, future, yielded, results, ckpt, lastGood,
                   saveResult, writeFailed, interrupted, status, output>>

\* A worker that queues a task again when its render call did not succeed.
WorkerFinishRetries(w) ==
    /\ running[w] # 0
    /\ LET t == running[w]
           result == ProcessSingleArticle(t, articles[t])
       IN  IF result.error = "Failed to get HTML from API" /\ requests[t] < 2
           THEN queue' = Append(queue, t) /\ future' = future
           ELSE queue' = queue /\ future' = [future EXCEPT ![t] = result]
    /\ running' = [running EXCEPT ![w] = 0]
    /\ worker_last' = [worker_last EXCEPT ![w] = "task"]
    /\ UNCHANGED <<fnVars, loadVars, resVars, input_file, lock, articles, max_workers, cadence, checkpoint_file, pc, health,
                   submitted, requests, yielded, results, ckpt, lastGood,
                   saveResult, writeFailed, interrupted, status, output>>

\* A worker whose extraction reads the page another worker is working on.
WorkerFinishSharedPage(w) ==
    /\ running[w] # 0
    /\ LET t == running[w]
           others == { running[v] : v \in Workers } \ {0, t}
           page == IF others = {} THEN t ELSE CHOOSE o \in others : TRUE
       IN  future' = [future EXCEPT ![t] =
                         ProcessSingleArticle(t, [render |-> articles[t].render,
                                                  extract |-> articles[page].extract])]
    /\ running' = [running EXCEPT ![w] = 0]
    /\ worker_last' = [worker_last EXCEPT ![w] = "task"]
    /\ UNCHANGED <<fnVars, loadVars, resVars, input_file, lock, articles, max_workers, cadence, checkpoint_file, pc, health,
                   submitted, queue, requests, yielded, results, ckpt, lastGood,
                   saveResult, writeFailed, interrupted, status, output>>

\* A worker that appends its result to the results list itself.
WorkerFinishAppends(w) ==
    /\ running[w] # 0
    /\ future' = [future EXCEPT ![running[w]] =
                     ProcessSingleArticle(running[w], articles[running[w]])]
    /\ results' = Append(results, ProcessSingleArticle(running[w], articles[running[w]]))
    /\ yielded' = yielded \cup {running[w]}
    /\ running' = [running EXCEPT ![w] = 0]
    /\ worker_last' = [worker_last EXCEPT ![w] = "task"]
    /\ UNCHANGED <<fnVars, loadVars, resVars, input_file, lock, articles, max_workers, cadence, checkpoint_file, pc, health,
                   submitted, queue, requests, ckpt, lastGood,
                   saveResult, writeFailed, interrupted, status, output>>

\* The render call answers (or times out), the page is extracted, and the
\* task's future gets the result of process_single_article. The thread
\* goes back to the queue at once: the pool's threads have no delay of their
\* own, time.sleep is called by the main thread only.
WorkerFinish(w) ==
    /\ running[w] # 0
    /\ future' = [future EXCEPT ![running[w]] =
                     ProcessSingleArticle(running[w], articles[running[w]])]
    /\ running' = [running EXCEPT ![w] = 0]
    /\ worker_last' = [worker_last EXCEPT ![w] = "task"]
    /\ UNCHANGED <<fnVars, loadVars, resVars, input_file, lock, articles, max_workers, cadence, checkpoint_file, pc, health,
                   submitted, queue, requests, yielded, results, ckpt, lastGood,
                   saveResult, writeFailed, interrupted, status, output>>

Completed == { t \in Tasks : future[t] # NoResult }

CheckpointDataRecent == SubSeq(results, Len(results) - cadence + 1, Len(results))

\* What scrape_articles hands to save_checkpoint: the whole results list.
CheckpointData == results

\* Whether the iteration that appended the i-th result saves a checkpoint.
FlushDue(i) == checkpoint_file /\ i % cadence = 0

MainTakeSuccessOnly(t) ==
    /\ pc = "wait"
    /\ t \in Completed \ yielded
    /\ yielded' = yielded \cup {t}
    /\ results' = IF future[t].success THEN Append(results, future[t]) ELSE results
    /\ saveResult' = "none"
    /\ pc' = IF FlushDue(Len(results')) /\ future[t].success THEN "save_open" ELSE "sleep"
    /\ UNCHANGED <<fnVars, loadVars, resVars, input_file, lock, worker_last, articles, max_workers, cadence, checkpoint_file, health,
                   submitted, queue, running, requests, future, ckpt, lastGood,
                   writeFailed, interrupted, status, output>>

\* The body of the as_completed loop up to the checkpoint decision: the next
\* finished future's result is appended to results. Futures that finished
\* while the loop was busy are taken in any order. future.result() does not
\* raise here: process_single_article catches every Exception of a task that
\* has a url, so the loop's except branch is not taken.
MainTake(t) ==
    /\ pc = "wait"
    /\ t \in Completed \ yielded
    /\ yielded' = yielded \cup {t}
    /\ results' = Append(results, future[t])
    /\ saveResult' = "none"
    /\ pc' = IF FlushDue(Len(results) + 1) THEN "save_open" ELSE "sleep"
    /\ UNCHANGED <<fnVars, loadVars, resVars, input_file, lock, worker_last, articles, max_workers, cadence, checkpoint_file, health,
                   submitted, queue, running, requests, future, ckpt, lastGood,
                   writeFailed, interrupted, status, output>>

\* save_json: open(filepath, 'w') creates or truncates the file.
SaveOpen ==
    /\ pc = "save_open"
    /\ ckpt' = [exists |-> TRUE, complete |-> FALSE, data |-> <<>>]
    /\ pc' = "save_write"
    /\ UNCHANGED <<fnVars, loadVars, resVars, input_file, lock, worker_last, articles, max_workers, cadence, checkpoint_file, health,
                   submitted, queue, running, requests, future, yielded,
                   results, lastGood, saveResult, writeFailed, interrupted,
                   status, output>>

\* save_json: json.dump writes the list to the open file piece by piece.
SaveWrite ==
    /\ pc = "save_write"
    /\ Len(ckpt.data) < Len(CheckpointData)
    /\ ckpt' = [ckpt EXCEPT !.data = Append(@, CheckpointData[Len(ckpt.data) + 1])]
    /\ UNCHANGED <<fnVars, loadVars, resVars, input_file, lock, worker_last, articles, max_workers, cadence, checkpoint_file, pc, health,
                   submitted, queue, running, requests, future, yielded,
                   results, lastGood, saveResult, writeFailed, interrupted,
                   status, output>>

\* save_json: the closing bracket is written and the file closed.
SaveClose ==
    /\ pc = "save_write"
    /\ Len(ckpt.data) = Len(CheckpointData)
    /\ ckpt' = [ckpt EXCEPT !.complete = TRUE]
    /\ lastGood' = ckpt.data
    /\ saveResult' = "ok"
    /\ pc' = "sleep"
    /\ UNCHANGED <<fnVars, loadVars, resVars, input_file, lock, worker_last, articles, max_workers, cadence, checkpoint_file, health,
                   submitted, queue, running, requests, future, yielded,
                   results, writeFailed, interrupted, status, output>>

\* A failed checkpoint write that ends the run.
SaveFailAborts ==
    /\ pc \in {"save_open", "save_write"}
    /\ saveResult' = "failed"
    /\ writeFailed' = TRUE
    /\ pc' = "exit"
    /\ UNCHANGED <<fnVars, loadVars, resVars, input_file, lock, worker_last, articles, max_workers, cadence, checkpoint_file, health,
                   submitted, queue, running, requests, future, yielded,
                   results, ckpt, lastGood, interrupted, status, output>>

\* save_json: mkdir, open or a write raises (permissions, disk full); the
\* exception is caught, logged, and save_checkpoint returns False.
SaveFail ==
    /\ pc \in {"save_open", "save_write"}
    /\ saveResult' = "failed"
    /\ writeFailed' = TRUE
    /\ pc' = "sleep"
    /\ UNCHANGED <<fnVars, loadVars, resVars, input_file, lock, worker_last, articles, max_workers, cadence, checkpoint_file, health,
                   submitted, queue, running, requests, future, yielded,
                   results, ckpt, lastGood, interrupted, status, output>>

\* time.sleep(DEFAULT_DELAY_BETWEEN_REQUESTS) in the main loop; after the last
\* future the loop and the executor end and scrape_articles returns results.
Sleep ==
    /\ pc = "sleep"
    /\ pc' = IF yielded = Tasks THEN "save_output" ELSE "wait"
    /\ UNCHANGED <<fnVars, loadVars, resVars, input_file, lock, worker_last, articles, max_workers, cadence, checkpoint_file, health,
                   submitted, queue, running, requests, future, yielded,
                   results, ckpt, lastGood, saveResult, writeFailed,
                   interrupted, status, output>>

\* main(): save_json(results, output_file) and the exit status.
FinalSave ==
    /\ pc = "save_output"
    /\ \E ok \in BOOLEAN :
          /\ output' = IF ok THEN [exists |-> TRUE, complete |-> TRUE, data |-> results]
                              ELSE output
          /\ status' = IF ok THEN "success" ELSE "save_failed"
    /\ pc' = "exit"
    /\ UNCHANGED <<fnVars, loadVars, resVars, input_file, lock, worker_last, articles, max_workers, cadence, checkpoint_file, health,
                   submitted, queue, running, requests, future, yielded,
                   results, ckpt, lastGood, saveResult, writeFailed,
                   interrupted>>

\* An interrupt handler that saves what has been collected so far as the
\* final output.
InterruptSavesPartial ==
    /\ ~interrupted
    /\ pc \notin {"exit", "drain"}
    /\ interrupted' = TRUE
    /\ IF pc \in {"submit", "wait", "save_open", "save_write", "sleep"}
       THEN pc' = "drain" /\ status' = status
       ELSE pc' = "exit" /\ status' = "interrupted"
    /\ output' = [exists |-> TRUE, complete |-> TRUE, data |-> results]
    /\ UNCHANGED <<fnVars, loadVars, resVars, input_file, lock, worker_last, articles, max_workers, cadence, checkpoint_file, health,
                   submitted, queue, running, requests, future, yielded,
                   results, ckpt, lastGood, saveResult, writeFailed>>

\* KeyboardInterrupt is raised in the main thread. Inside the executor's with
\* block it leaves through ThreadPoolExecutor.__exit__, i.e. shutdown(wait=True);
\* a file being written is closed as it is (except Exception does not catch it).
\* Raised while main() is in save_json(results, output_file), it may come
\* before the file is opened or leave a part of the dump behind.
Interrupt ==
    /\ ~interrupted
    /\ pc \notin {"exit", "drain"}
    /\ interrupted' = TRUE
    /\ IF pc \in {"submit", "wait", "save_open", "save_write", "sleep"}
       THEN pc' = "drain" /\ status' = status
       ELSE pc' = "exit" /\ status' = "interrupted"
    /\ IF pc = "save_output"
       THEN \E k \in 0..Len(results) :
               output' \in {output, [exists |-> TRUE, complete |-> FALSE,
                                      data |-> SubSeq(results, 1, k)]}
       ELSE output' = output
    /\ UNCHANGED <<fnVars, loadVars, resVars, input_file, lock, worker_last, articles, max_workers, cadence, checkpoint_file, health,
                   submitted, queue, running, requests, future, yielded,
                   results, ckpt, lastGood, saveResult, writeFailed>>

\* shutdown(wait=True) returns once every pool thread has ended; main() then
\* reports the interruption.
Drain ==
    /\ pc = "drain"
    /\ queue = <<>>
    /\ \A w \in Workers : running[w] = 0
    /\ pc' = "exit"
    /\ status' = "interrupted"
    /\ UNCHANGED <<fnVars, loadVars, resVars, input_file, lock, worker_last, articles, max_workers, cadence, checkpoint_file, health,
                   submitted, queue, running, requests, future, yielded,
                   results, ckpt, lastGood, saveResult, writeFailed,
                   interrupted, output>>

\* The steps of the program itself.
SchedStep ==
    \/ MainHealth
    \/ MainLoad
    \/ Submit
    \/ \E w \in Workers : WorkerStart(w)
    \/ \E w \in Workers : WorkerFinish(w)
    \/ \E t \in Tasks : MainTake(t)
    \/ SaveOpen
    \/ SaveWrite
    \/ SaveClose
    \/ SaveFail
    \/ Sleep
    \/ FinalSave
    \/ Drain

SchedNext == SchedStep \/ Interrupt

\* ------------------------------------------------ resolver: documents

\* Longest chain of nested resolutions the model follows: one more than the
\* number of sitemap URLs, so that a chain repeating a URL is seen.
MaxDepth == MaxUrls + 1

SitemapUrls == 1..MaxUrls
RootUrl == 1
ContentUrls == {"a", "b"}

\* A sitemap document: an index listing sitemap URLs, a leaf listing content
\* URLs, a URL whose fetch fails or whose bytes are no XML, or a leaf with a
\* <url> entry that has no <loc>.
SitemapDocs ==
    { [kind |-> "index", locs |-> c] : c \in SUBSET SitemapUrls }
    \cup { [kind |-> "leaf", locs |-> c] : c \in {{}, {"a"}, {"a", "b"}} }
    \cup { [kind |-> k, locs |-> {}] : k \in {"fetch_error", "parse_error", "bad_entry"} }

RECURSIVE SortedSeq(_)
\* The elements of a set of numbers in document (ascending) order.
SortedSeq(S) ==
    IF S = {} THEN <<>>
    ELSE LET m == CHOOSE x \in S : \A y \in S : x <= y
         IN  <<m>> \o SortedSeq(S \ {m})

RECURSIVE LocSeq(_)
LocSeq(S) ==
    IF S = {} THEN <<>>
    ELSE LET m == IF "a" \in S THEN "a" ELSE "b"
         IN  <<m>> \o LocSeq(S \ {m})

\* _process_sitemap_index, the loop over <loc> elements: every listed URL but
\* the index's own.
ChildSitemapUrls(sitemap_url, locs) ==
    SortedSeq({ u \in locs : u # sitemap_url })

\* A leaf's records tagged with the root's URL instead of the leaf's own.
LeafRecordsUntagged(sitemap_url, locs) ==
    LET ls == LocSeq(locs)
    IN  [i \in 1..Len(ls) |-> [loc |-> ls[i], sitemap |-> RootUrl, errors |-> FALSE]]

\* _parse_sitemap_xml and the "sitemap" column: one record per <loc>.
LeafRecords(sitemap_url, locs) ==
    LET ls == LocSeq(locs)
    IN  [i \in 1..Len(ls) |-> [loc |-> ls[i], sitemap |-> sitemap_url, errors |-> FALSE]]

\* The error entry _process_sitemap_index adds for a child whose future raised.
ErrorRecord(url) == [loc |-> "", sitemap |-> url, errors |-> TRUE]

Call(st, pend, col, recs) ==
    [status |-> st, pending |-> pend, collected |-> col, out |-> recs]

Url(p) == p[Len(p)]
Parent(p) == SubSeq(p, 1, Len(p) - 1)
ChildCalls(p) == { q \in DOMAIN calls : Len(q) = Len(p) + 1 /\ Parent(q) = p }
\* Children of p whose scrape_sitemap call occupies a thread of p's pool.
BusyChildren(p) == { q \in ChildCalls(p) : calls[q].status \in {"fetching", "waiting"} }

\* ------------------------------------------------- resolver: actions

\* The headers __init__ puts in self.headers.
InitHeaders ==
    {"User-Agent", "Accept", "Accept-Language", "Referer", "Cache-Control",
     "Pragma", "Connection"}

\* The sitemap URLs that end in "xml.gz".
GzUrls == {2}

\* _fetch_sitemap_content up to the request: for a URL that ends in "xml.gz"
\* it first stores "accept-encoding" in self.headers, the one dict of the
\* scraper; the request carries what the dict holds then.
HeadersAfterFetchOf(sitemap_url, hdrs) ==
    IF sitemap_url \in GzUrls THEN hdrs \cup {"accept-encoding"} ELSE hdrs

ResolverInit ==
    /\ sitemaps \in [SitemapUrls -> SitemapDocs]
    /\ pool_size \in 1..MaxWorkers
    /\ calls = (<<RootUrl>> :> Call("fetching", <<>>, {}, <<>>))
    /\ headers = HeadersAfterFetchOf(RootUrl, InitHeaders)
    /\ sent_headers = (<<RootUrl>> :> HeadersAfterFetchOf(RootUrl, InitHeaders))

\* One pool for the whole resolver: a child starts only when fewer than
\* max_workers scrape_sitemap calls run in pool threads, at any depth.
ChildStartSharedPool(p) ==
    /\ p \in DOMAIN calls
    /\ calls[p].status = "waiting"
    /\ calls[p].pending # <<>>
    /\ Cardinality({ r \in DOMAIN calls :
                        Len(r) > 1 /\ calls[r].status \in {"fetching", "waiting"} }) < pool_size
    /\ Len(p) < MaxDepth
    /\ LET q == Append(p, Head(calls[p].pending))
       IN  /\ calls' = [ r \in DOMAIN calls \cup {q} |->
                           IF r = q THEN Call("fetching", <<>>, {}, <<>>)
                           ELSE IF r = p THEN [calls[p] EXCEPT !.pending = Tail(@)]
                           ELSE calls[r] ]
           /\ headers' = HeadersAfterFetchOf(Url(q), headers)
           /\ sent_headers' = [ r \in DOMAIN calls \cup {q} |->
                                  IF r = q THEN HeadersAfterFetchOf(Url(q), headers)
                                  ELSE sent_headers[r] ]
    /\ UNCHANGED <<fnVars, loadVars, schedVars, sitemaps, pool_size>>

\* A thread of the pool of index call p takes the oldest queued child URL and
\* calls scrape_sitemap on it: the child's fetch starts and its request is
\* made. Every _process_sitemap_index call has a pool of its own. Chains are
\* followed up to MaxDepth calls.
ChildStart(p) ==
    /\ p \in DOMAIN calls
    /\ calls[p].status = "waiting"
    /\ calls[p].pending # <<>>
    /\ Cardinality(BusyChildren(p)) < pool_size
    /\ Len(p) < MaxDepth
    /\ LET q == Append(p, Head(calls[p].pending))
       IN  /\ calls' = [ r \in DOMAIN calls \cup {q} |->
                           IF r = q THEN Call("fetching", <<>>, {}, <<>>)
                           ELSE IF r = p THEN [calls[p] EXCEPT !.pending = Tail(@)]
                           ELSE calls[r] ]
           /\ headers' = HeadersAfterFetchOf(Url(q), headers)
           /\ sent_headers' = [ r \in DOMAIN calls \cup {q} |->
                                  IF r = q THEN HeadersAfterFetchOf(Url(q), headers)
                                  ELSE sent_headers[r] ]
    /\ UNCHANGED <<fnVars, loadVars, schedVars, sitemaps, pool_size>>

\* scrape_sitemap(p's URL) from the answer of the fetch to the return, or, for
\* an index, to the submission of its children.
FetchDone(p) ==
    /\ p \in DOMAIN calls
    /\ calls[p].status = "fetching"
    /\ LET doc == sitemaps[Url(p)]
           kids == ChildSitemapUrls(Url(p), doc.locs)
       IN  calls' = [calls EXCEPT ![p] =
              CASE doc.kind \in {"fetch_error", "parse_error"} ->
                       Call("done", <<>>, {}, <<>>)
                [] doc.kind = "bad_entry" ->
                       Call("raised", <<>>, {}, <<>>)
                [] doc.kind = "leaf" ->
                       Call("done", <<>>, {}, LeafRecords(Url(p), doc.locs))
                [] doc.kind = "index" ->
                       IF kids = <<>>
                       THEN Call("done", <<>>, {}, <<>>)
                       ELSE Call("waiting", kids, {}, <<>>)]
    /\ UNCHANGED <<fnVars, loadVars, schedVars, sitemaps, pool_size, headers, sent_headers>>

\* An as_completed loop that a raised child makes forget what it had gathered.
CollectAbortOnError(p, q) ==
    /\ p \in DOMAIN calls
    /\ calls[p].status = "waiting"
    /\ q \in ChildCalls(p)
    /\ calls[q].status \in {"done", "raised"}
    /\ Url(q) \notin calls[p].collected
    /\ calls' = [calls EXCEPT ![p] =
                    [@ EXCEPT !.collected = @ \cup {Url(q)},
                              !.out = IF calls[q].status = "raised"
                                      THEN <<ErrorRecord(Url(q))>>
                                      ELSE @ \o calls[q].out]]
    /\ UNCHANGED <<fnVars, loadVars, schedVars, sitemaps, pool_size, headers, sent_headers>>

\* The as_completed loop of index call p takes a finished child: its records,
\* or an error entry when the child's call raised.
Collect(p, q) ==
    /\ p \in DOMAIN calls
    /\ calls[p].status = "waiting"
    /\ q \in ChildCalls(p)
    /\ calls[q].status \in {"done", "raised"}
    /\ Url(q) \notin calls[p].collected
    /\ calls' = [calls EXCEPT ![p] =
                    [@ EXCEPT !.collected = @ \cup {Url(q)},
                              !.out = IF calls[q].status = "raised"
                                      THEN Append(@, ErrorRecord(Url(q)))
                                      ELSE @ \o calls[q].out]]
    /\ UNCHANGED <<fnVars, loadVars, schedVars, sitemaps, pool_size, headers, sent_headers>>

\* Every child of index call p is collected: the pool ends and the
\* concatenation is returned.
Return(p) ==
    /\ p \in DOMAIN calls
    /\ calls[p].status = "waiting"
    /\ calls[p].pending = <<>>
    /\ \A q \in ChildCalls(p) : Url(q) \in calls[p].collected
    /\ calls' = [calls EXCEPT ![p].status = "done"]
    /\ UNCHANGED <<fnVars, loadVars, schedVars, sitemaps, pool_size, headers, sent_headers>>

ResolverNext ==
    \/ \E p \in DOMAIN calls : ChildStart(p)
    \/ \E p \in DOMAIN calls : FetchDone(p)
    \/ \E p \in DOMAIN calls : \E q \in DOMAIN calls : Collect(p, q)
    \/ \E p \in DOMAIN calls : Return(p)

\* --------------------------------------------------- loader: inputs

\* config.settings.MIN_ARTICLE_YEAR, and a later year as --year gives it.
MinYears == {2015, 2020}

\* limit: None (not given) or an integer.
NoLimit == [given |-> FALSE, value |-> 0]
Limits == {NoLimit} \cup { [given |-> TRUE, value |-> k] : k \in 0..MaxRecords }

\* Host time zones: one hour west of UTC, UTC, one hour east.
HostUtcOffsets == {0 - 3600, 0, 3600}

\* Instants, in seconds since the epoch: 1995-10-30 02:01:30, 2019-12-31
\* 23:30:00 and 2020-01-01 00:00:00, all UTC.
Instants == {815018490, 1577835000, 1577836800}

\* A sitemap URL as the sequence of its pieces; "archive-", "-" and "." are
\* pieces of their own, being what the code splits on.
PlainPath == <<"sitemaps/", "news", ".", "xml">>
ArchivePath(year, month) == <<"sitemaps/", "archive-", year, "-", month, ".", "xml">>
YearOnlyPath(year) == <<"sitemaps/", "archive-", year, ".", "xml">>
\* The sitemap key holding JSON null, which item.get('sitemap', '') returns
\* as None: a value that is no text, held as a piece of its own.
NullSitemap == <<"None">>
SitemapPaths ==
    { PlainPath, ArchivePath("2019", "3"), ArchivePath("2014", "3"),
      ArchivePath("2021", "1"), YearOnlyPath("2019"),
      ArchivePath("2019", "x"), NullSitemap }

\* A lastmod value of a record. An epoch-milliseconds number is held as its
\* quotient by 1000 (secs); a string is held as its form and the instant it
\* was written for: "YYYY-MM-DD HH:MM:SS UTC" as FileHandler.save_json
\* writes a Timestamp, the decimal digits of the epoch milliseconds, an ISO
\* 8601 string, or a string with "UTC" in it that is no date.
NoLastmod == [type |-> "none", form |-> "", secs |-> 0]
EpochMs(s) == [type |-> "int", form |-> "", secs |-> s]
UtcString(s) == [type |-> "str", form |-> "utc", secs |-> s]
DigitString(s) == [type |-> "str", form |-> "digits", secs |-> s]
IsoString(s) == [type |-> "str", form |-> "iso", secs |-> s]
BadUtcString == [type |-> "str", form |-> "bad_utc", secs |-> 0]
\* Other JSON values: a non-empty array, true, and a number too large for
\* the platform's time_t (1e30).
ListLastmod == [type |-> "list", form |-> "", secs |-> 0]
TrueLastmod == [type |-> "bool", form |-> "", secs |-> 0]
HugeNumber == [type |-> "int", form |-> "huge", secs |-> 0]
Lastmods ==
    {NoLastmod, BadUtcString, ListLastmod, TrueLastmod, HugeNumber}
    \cup { EpochMs(s) : s \in Instants }
    \cup { UtcString(s) : s \in Instants }
    \cup { DigitString(s) : s \in Instants }
    \cup { IsoString(s) : s \in Instants }

\* A record of the sitemap data file. loc is "" when the key is absent or
\* empty, errors is whether the errors marker is set.
Item(loc, errors, sitemap, lastmod, image_loc) ==
    [loc |-> loc, errors |-> errors, sitemap |-> sitemap, lastmod |-> lastmod,
     image_loc |-> image_loc]

\* Every shape of record, for files of one record.
Items ==
    { Item(l, e, p, m, "") :
        l \in {"", "u1"}, e \in BOOLEAN, p \in SitemapPaths, m \in Lastmods }

\* The records that files of several records are made of.
FileItems ==
    { Item("u1", FALSE, ArchivePath("2019", "3"), NoLastmod, ""),
      Item("u2", FALSE, ArchivePath("2019", "3"), UtcString(1577836800), "img"),
      Item("u1", FALSE, PlainPath, EpochMs(1577836800), ""),
      Item("u3", FALSE, PlainPath, IsoString(1577835000), ""),
      Item("u3", TRUE, ArchivePath("2019", "3"), NoLastmod, "") }

RawDataInputs ==
    { <<it>> : it \in Items }
    \cup UNION { [1..n -> FileItems] : n \in 0..MaxRecords }

\* ------------------------------------------- loader: year derivation

Contains(s, piece) == \E i \in DOMAIN s : s[i] = piece

\* The positions of piece in s, with Len(s) + 1 as a last one.
Cuts(s, piece) == { i \in DOMAIN s : s[i] = piece } \cup {Len(s) + 1}
FirstCut(s, piece) == CHOOSE i \in Cuts(s, piece) : \A j \in Cuts(s, piece) : i <= j

\* s.split(piece)[0]
SplitHead(s, piece) == SubSeq(s, 1, FirstCut(s, piece) - 1)
\* s.split(piece)[1], for s that holds piece
SplitSecond(s, piece) ==
    LET rest == SubSeq(s, FirstCut(s, piece) + 1, Len(s))
    IN  SplitHead(rest, piece)

\* The numerals of the inputs and the integers they write.
Numerals ==
    ("1" :> 1) @@ ("3" :> 3) @@ ("2014" :> 2014) @@ ("2019" :> 2019) @@ ("2021" :> 2021)

\* int(text): the integer a lone numeral writes, ValueError for anything else.
PyInt(text) ==
    IF Len(text) = 1 /\ text[1] \in DOMAIN Numerals
    THEN [ok |-> TRUE, value |-> Numerals[text[1]]]
    ELSE [ok |-> FALSE, value |-> 0]

IsLeap(y) == (y % 4 = 0 /\ y % 100 # 0) \/ y % 400 = 0
DaysIn(y) == IF IsLeap(y) THEN 366 ELSE 365

RECURSIVE YearOfDay(_, _)
\* The calendar year of day d counted from 1 January of year y.
YearOfDay(d, y) ==
    IF d < 0 THEN YearOfDay(d + DaysIn(y - 1), y - 1)
    ELSE IF d < DaysIn(y) THEN y
    ELSE YearOfDay(d - DaysIn(y), y + 1)

RECURSIVE DayInYear(_, _)
\* The same day counted from 1 January of its own year.
DayInYear(d, y) ==
    IF d < 0 THEN DayInYear(d + DaysIn(y - 1), y - 1)
    ELSE IF d < DaysIn(y) THEN d
    ELSE DayInYear(d - DaysIn(y), y + 1)

DaysInMonth(y, m) ==
    CASE m = 2 -> IF IsLeap(y) THEN 29 ELSE 28
      [] m \in {4, 6, 9, 11} -> 30
      [] OTHER -> 31

RECURSIVE MonthOfDay(_, _, _)
\* The month of day d counted from the first day of month m of year y.
MonthOfDay(d, y, m) ==
    IF d < DaysInMonth(y, m) THEN m ELSE MonthOfDay(d - DaysInMonth(y, m), y, m + 1)

\* datetime.fromtimestamp(secs, tz).year for a zone offset seconds east of UTC.
CalendarYear(secs, offset) == YearOfDay((secs + offset) \div 86400, 1970)

\* datetime.fromtimestamp(secs, tz).month
CalendarMonth(secs, offset) ==
    MonthOfDay(DayInYear((secs + offset) \div 86400, 1970), CalendarYear(secs, offset), 1)

NoYear == [defined |-> FALSE, year |-> 0]
SomeYear(y) == [defined |-> TRUE, year |-> y]

\* The lastmod branch of _extract_article_year: a "UTC" string is read by
\* strptime as the calendar fields it shows, which save_json wrote in UTC; a
\* string of digits is made a number; a number is turned into a date in the
\* host's local zone; true is the number 1, a millisecond after the epoch.
\* None when lastmod is missing, is neither text nor number, or cannot be
\* read; for a number out of time_t's range see ExtractArticleYearRaises.
YearFromLastmod(lastmod, offset) ==
    CASE lastmod.type = "none" -> NoYear
      [] lastmod.type = "list" -> NoYear
      [] lastmod.type = "bool" -> SomeYear(CalendarYear(0, offset))
      [] lastmod.type = "int" /\ lastmod.form = "huge" -> NoYear
      [] lastmod.type = "str" /\ lastmod.form = "utc" ->
             SomeYear(CalendarYear(lastmod.secs, 0))
      [] lastmod.type = "str" /\ lastmod.form = "bad_utc" -> NoYear
      [] lastmod.type = "str" /\ lastmod.form = "digits" ->
             SomeYear(CalendarYear(lastmod.secs, offset))
      [] lastmod.type = "str" /\ lastmod.form = "iso" -> NoYear
      [] lastmod.type = "int" /\ lastmod.form = "" ->
             IF lastmod.secs = 0 THEN NoYear
             ELSE SomeYear(CalendarYear(lastmod.secs, offset))

\* A year derivation that looks at lastmod before the sitemap path.
ExtractArticleYearLastmodFirst(item, offset) ==
    LET fromLastmod == YearFromLastmod(item.lastmod, offset)
        year_part == SplitHead(SplitSecond(item.sitemap, "archive-"), "-")
    IN  IF fromLastmod.defined THEN fromLastmod
        ELSE IF Contains(item.sitemap, "archive-") /\ PyInt(year_part).ok
        THEN SomeYear(PyInt(year_part).value)
        ELSE NoYear

\* ArticleScraper._extract_article_year on a host offset seconds east of UTC.
ExtractArticleYear(item, offset) ==
    LET year_part == SplitHead(SplitSecond(item.sitemap, "archive-"), "-")
    IN  IF Contains(item.sitemap, "archive-") /\ PyInt(year_part).ok
        THEN SomeYear(PyInt(year_part).value)
        ELSE YearFromLastmod(item.lastmod, offset)

\* Whether _extract_article_year raises: "'archive-' in sitemap" is outside
\* every try and raises TypeError for None; datetime.fromtimestamp raises
\* OverflowError, which "except (ValueError, OSError, TypeError)" lets pass.
ExtractArticleYearRaises(item) ==
    \/ item.sitemap = NullSitemap
    \/ /\ ~(/\ Contains(item.sitemap, "archive-")
             /\ PyInt(SplitHead(SplitSecond(item.sitemap, "archive-"), "-")).ok)
       /\ item.lastmod = HugeNumber

\* Method 1 of DateExtractor.extract_year_month: year and month from the
\* sitemap path; month is 0 for None, ok is FALSE when the method gives up.
SitemapYearMonth(sitemap) ==
    LET second == SplitSecond(sitemap, "archive-")
        year_part == SplitHead(second, "-")
        has_month == Contains(second, "-")
        month_part == SplitHead(SplitSecond(second, "-"), ".")
    IN  IF ~Contains(sitemap, "archive-") \/ ~PyInt(year_part).ok
        THEN [ok |-> FALSE, year |-> 0, month |-> 0]
        ELSE IF ~has_month
        THEN [ok |-> TRUE, year |-> PyInt(year_part).value, month |-> 0]
        ELSE IF PyInt(month_part).ok
        THEN [ok |-> TRUE, year |-> PyInt(year_part).value,
              month |-> PyInt(month_part).value]
        ELSE [ok |-> FALSE, year |-> 0, month |-> 0]

\* ArticleScraper._parse_article_date: the local date of an epoch-milliseconds
\* lastmod, None for a missing one and for a string that is not all digits.
ParseArticleDate(item, offset) ==
    IF \/ item.lastmod.type = "int" /\ item.lastmod.secs # 0
       \/ item.lastmod.type = "str" /\ item.lastmod.form = "digits"
       \/ item.lastmod.type = "bool"
    THEN SomeYear(CalendarYear(item.lastmod.secs, offset))
    ELSE NoYear

\* Whether _parse_article_date raises: a list divided by 1000 is a TypeError
\* and a number out of range an OverflowError; it catches ValueError and
\* OSError only.
ParseArticleDateRaises(item) ==
    item.lastmod \in {ListLastmod, HugeNumber}

NoYearMonth == [defined |-> FALSE, year |-> 0, month |-> 0, raised |-> FALSE]
YearMonth(y, m) == [defined |-> TRUE, year |-> y, month |-> m, raised |-> FALSE]
TimestampRaised == [defined |-> FALSE, year |-> 0, month |-> 0, raised |-> TRUE]

\* DateExtractor.parse_timestamp, as the year and month of the datetime it
\* returns: a "UTC" string by strptime, any other string by dateutil's
\* parser (which reads an ISO 8601 string, and no date in a 13-digit
\* numeral), a number as epoch milliseconds in UTC. OverflowError is not
\* among the exceptions it catches.
ParseTimestamp(lastmod) ==
    CASE lastmod.type = "none" -> NoYearMonth
      [] lastmod.type = "list" -> NoYearMonth
      [] lastmod.type = "bool" -> YearMonth(CalendarYear(0, 0), CalendarMonth(0, 0))
      [] lastmod.type = "str" /\ lastmod.form \in {"utc", "iso"} ->
             YearMonth(CalendarYear(lastmod.secs, 0), CalendarMonth(lastmod.secs, 0))
      [] lastmod.type = "str" /\ lastmod.form \in {"bad_utc", "digits"} -> NoYearMonth
      [] lastmod.type = "int" /\ lastmod.form = "huge" -> TimestampRaised
      [] lastmod.type = "int" /\ lastmod.form = "" ->
             IF lastmod.secs = 0 THEN NoYearMonth
             ELSE YearMonth(CalendarYear(lastmod.secs, 0), CalendarMonth(lastmod.secs, 0))

\* DateExtractor.extract_year_month: month 0 is None. The membership test on
\* the sitemap is outside the try, as in _extract_article_year.
ExtractYearMonth(item) ==
    LET path == SitemapYearMonth(item.sitemap)
    IN  IF item.sitemap = NullSitemap THEN TimestampRaised
        ELSE IF path.ok THEN YearMonth(path.year, path.month)
        ELSE ParseTimestamp(item.lastmod)

\* ----------------------------------------- loader: load_article_urls

\* A filter that lets records with an errors marker through.
RetainedIgnoringErrors(item, minYear, offset) ==
    LET year == ExtractArticleYear(item, offset)
    IN  /\ item.loc # ""
        /\ year.defined /\ year.year # 0 /\ year.year >= minYear

\* The conditions of the loop of load_article_urls under which a record is
\* appended to articles.
Retained(item, minYear, offset) ==
    LET year == ExtractArticleYear(item, offset)
    IN  /\ item.loc # "" /\ ~item.errors
        /\ year.defined /\ year.year # 0 /\ year.year >= minYear

\* The dict load_article_urls appends for a record.
ArticleTask(item, offset) ==
    [url |-> item.loc,
     year |-> ExtractArticleYear(item, offset).year,
     article_date |-> ParseArticleDate(item, offset),
     lastmod |-> item.lastmod,
     sitemap |-> item.sitemap,
     has_image |-> item.image_loc # ""]

\* The loop of load_article_urls over raw_data.
FilterArticles(raw, minYear, offset) ==
    LET Keep(item) == Retained(item, minYear, offset)
        kept == SelectSeq(raw, Keep)
    IN  [i \in DOMAIN kept |-> ArticleTask(kept[i], offset)]

\* An insertion that puts x before the tasks of its own year.
InsertByYearBeforeTies(sorted, x) ==
    LET before == { i \in DOMAIN sorted : sorted[i].year > x.year }
        k == Cardinality(before)
    IN  SubSeq(sorted, 1, k) \o <<x>> \o SubSeq(sorted, k + 1, Len(sorted))

\* x put into a list sorted by non-increasing year, after every task whose
\* year is not smaller: where a stable sort leaves it.
InsertByYear(sorted, x) ==
    LET before == { i \in DOMAIN sorted : sorted[i].year >= x.year }
        k == Cardinality(before)
    IN  SubSeq(sorted, 1, k) \o <<x>> \o SubSeq(sorted, k + 1, Len(sorted))

RECURSIVE SortByYear(_)
\* articles.sort(key=lambda x: x['year'], reverse=True)
SortByYear(s) ==
    IF s = <<>> THEN <<>>
    ELSE InsertByYear(SortByYear(SubSeq(s, 1, Len(s) - 1)), s[Len(s)])

\* "if limit: articles = articles[:limit]": None and 0 are both falsy.
ApplyLimit(sorted, lim) ==
    IF lim.given /\ lim.value # 0
    THEN SubSeq(sorted, 1, IF lim.value < Len(sorted) THEN lim.value ELSE Len(sorted))
    ELSE sorted

\* ArticleScraper.load_article_urls
LoadArticleUrls(raw, minYear, lim, offset) ==
    IF raw = <<>> THEN <<>>
    ELSE ApplyLimit(SortByYear(FilterArticles(raw, minYear, offset)), lim)

\* Whether load_article_urls raises: some record that passes the loc and
\* errors test makes the year derivation raise, or is appended and makes the
\* date derivation raise.
LoadArticleUrlsRaises(raw, minYear, offset) ==
    \E i \in DOMAIN raw :
        /\ raw[i].loc # "" /\ ~raw[i].errors
        /\ \/ ExtractArticleYearRaises(raw[i])
           \/ Retained(raw[i], minYear, offset) /\ ParseArticleDateRaises(raw[i])

\* ---------------------------------------------------- loader: actions

LoadInit ==
    /\ raw_data \in RawDataInputs
    /\ min_year \in MinYears
    /\ limit \in Limits
    /\ utc_offset \in HostUtcOffsets
    /\ years = <<>>
    /\ task_list = <<>>
    /\ done_steps = {}

\* _extract_article_year and extract_year_month (with its method 1 apart)
\* applied to every record of raw_data.
DeriveYears ==
    /\ "derive" \notin done_steps
    /\ years' = [i \in DOMAIN raw_data |->
                    [article |-> ExtractArticleYear(raw_data[i], utc_offset),
                     article_raised |-> ExtractArticleYearRaises(raw_data[i]),
                     path |-> SitemapYearMonth(raw_data[i].sitemap),
                     extractor |-> ExtractYearMonth(raw_data[i])]]
    /\ done_steps' = done_steps \cup {"derive"}
    /\ UNCHANGED <<fnVars, schedVars, resVars, raw_data, min_year, limit, utc_offset, task_list>>

\* main() calls load_article_urls(filepath, min_year, limit), which returns
\* the task list or leaves by an exception.
LoadArticles ==
    /\ done_steps \cap {"load", "load_raised"} = {}
    /\ IF LoadArticleUrlsRaises(raw_data, min_year, utc_offset)
       THEN /\ task_list' = task_list
            /\ done_steps' = done_steps \cup {"load_raised"}
       ELSE /\ task_list' = LoadArticleUrls(raw_data, min_year, limit, utc_offset)
            /\ done_steps' = done_steps \cup {"load"}
    /\ UNCHANGED <<fnVars, schedVars, resVars, raw_data, min_year, limit, utc_offset, years>>

LoadNext == DeriveYears \/ LoadArticles

\* ----------------------------------------------- single calls: actions

NoCall == [fn |-> "none", input |-> <<>>]
NotReturned == [returned |-> FALSE, value |-> <<>>]
Returned(v) == [returned |-> TRUE, value |-> v]

\* process_single_article for a task and what its collaborators answer.
ProcessCalls ==
    { [fn |-> "process_single_article", input |-> [url |-> u, env |-> e]] :
        u \in 1..MaxTasks,
        e \in [render : RenderOutcomes, extract : ExtractOutcomes] }

ProcessSingleArticleCall ==
    /\ call.fn = "process_single_article"
    /\ ~ret.returned
    /\ ret' = Returned(ProcessSingleArticle(call.input.url, call.input.env))
    /\ UNCHANGED <<schedVars, resVars, loadVars, call>>

\* ------------------------------------------- FileHandler: JSON files

\* A Python value: None, a str, an int, float('nan'), pandas' NaT, a pandas
\* Timestamp (s is what strftime('%Y-%m-%d %H:%M:%S UTC') gives for it), a
\* list (items) or a dict (keys and, in the same order, items).
PyNone == [t |-> "none", s |-> "", keys |-> <<>>, items |-> <<>>]
PyStr(s) == [t |-> "str", s |-> s, keys |-> <<>>, items |-> <<>>]
PyInt64(s) == [t |-> "int", s |-> s, keys |-> <<>>, items |-> <<>>]
PyNaN == [t |-> "nan", s |-> "", keys |-> <<>>, items |-> <<>>]
PyNaT == [t |-> "nat", s |-> "", keys |-> <<>>, items |-> <<>>]
PyTimestamp(s) == [t |-> "timestamp", s |-> s, keys |-> <<>>, items |-> <<>>]
PyList(items) == [t |-> "list", s |-> "", keys |-> <<>>, items |-> items]
PyDict(keys, items) == [t |-> "dict", s |-> "", keys |-> keys, items |-> items]

\* A JSON text, as the value it writes: null, a string, a number (s is its
\* literal, "NaN" included), an array or an object.
JsonNull == [t |-> "null", s |-> "", keys |-> <<>>, items |-> <<>>]
JsonString(s) == [t |-> "string", s |-> s, keys |-> <<>>, items |-> <<>>]
JsonNumber(s) == [t |-> "number", s |-> s, keys |-> <<>>, items |-> <<>>]
JsonArray(items) == [t |-> "array", s |-> "", keys |-> <<>>, items |-> items]
JsonObject(keys, items) == [t |-> "object", s |-> "", keys |-> keys, items |-> items]

Scalars ==
    { PyNone, PyStr("x"), PyInt64("1"), PyNaN, PyNaT,
      PyTimestamp("2020-01-01 00:00:00 UTC") }

RECURSIVE PyValues(_)
\* The values nested at most d containers deep.
PyValues(d) ==
    IF d = 0 THEN Scalars
    ELSE PyValues(d - 1)
         \cup {PyList(<<>>)}
         \cup { PyList(<<v>>) : v \in PyValues(d - 1) }
         \cup { PyDict(<<"k">>, <<v>>) : v \in PyValues(d - 1) }

\* A record with a url and one more field.
PyRecord(v) == PyDict(<<"url", "f">>, <<PyStr("x"), v>>)

\* The lists of records handed to save_json.
RecordLists ==
    {PyList(<<>>)}
    \cup { PyList(<<PyRecord(v)>>) : v \in PyValues(MaxNesting) }
    \cup { PyList(<<PyRecord(v), PyRecord(w)>>) : v \in Scalars, w \in Scalars }

RECURSIVE CleanData(_)
\* clean_data of save_json: dicts and lists are walked, and a value pd.isna
\* holds for becomes None.
CleanData(obj) ==
    CASE obj.t = "dict" ->
             PyDict(obj.keys, [i \in DOMAIN obj.items |-> CleanData(obj.items[i])])
      [] obj.t = "list" ->
             PyList([i \in DOMAIN obj.items |-> CleanData(obj.items[i])])
      [] obj.t \in {"nan", "nat", "none"} -> PyNone
      [] OTHER -> obj

RECURSIVE JsonDump(_)
\* json.dump(obj, cls=TimestampEncoder): a Timestamp is written as the
\* string strftime gives, NaT as null, a nan as the literal NaN.
JsonDump(obj) ==
    CASE obj.t = "dict" ->
             JsonObject(obj.keys, [i \in DOMAIN obj.items |-> JsonDump(obj.items[i])])
      [] obj.t = "list" ->
             JsonArray([i \in DOMAIN obj.items |-> JsonDump(obj.items[i])])
      [] obj.t = "none" -> JsonNull
      [] obj.t = "nat" -> JsonNull
      [] obj.t = "nan" -> JsonNumber("NaN")
      [] obj.t = "int" -> JsonNumber(obj.s)
      [] obj.t = "str" -> JsonString(obj.s)
      [] obj.t = "timestamp" -> JsonString(obj.s)

RECURSIVE JsonLoad(_)
\* json.load
JsonLoad(doc) ==
    CASE doc.t = "object" ->
             PyDict(doc.keys, [i \in DOMAIN doc.items |-> JsonLoad(doc.items[i])])
      [] doc.t = "array" ->
             PyList([i \in DOMAIN doc.items |-> JsonLoad(doc.items[i])])
      [] doc.t = "null" -> PyNone
      [] doc.t = "number" -> IF doc.s = "NaN" THEN PyNaN ELSE PyInt64(doc.s)
      [] doc.t = "string" -> PyStr(doc.s)

\* A path of the file system: no file, a file that is no JSON text, or a
\* file holding a JSON text.
MissingFile == [kind |-> "missing", doc |-> JsonNull]
MalformedFile == [kind |-> "malformed", doc |-> JsonNull]
JsonFile(doc) == [kind |-> "json", doc |-> doc]

\* save_json when mkdir, open and the writes succeed: the file it leaves.
SaveJson(data) == JsonFile(JsonDump(CleanData(data)))

\* load_json: None for a file that does not exist and for one json.load
\* raises on, the parsed value otherwise.
LoadJson(file) ==
    CASE file.kind = "missing" -> PyNone
      [] file.kind = "malformed" -> PyNone
      [] file.kind = "json" -> JsonLoad(file.doc)

\* save_json(data, path) followed by load_json(path).
SaveLoadCalls == { [fn |-> "save_load", input |-> d] : d \in RecordLists }

SaveThenLoadCall ==
    /\ call.fn = "save_load"
    /\ ~ret.returned
    /\ ret' = Returned(LoadJson(SaveJson(call.input)))
    /\ UNCHANGED <<schedVars, resVars, loadVars, call>>

\* The files load_json is called on.
Files ==
    {MissingFile, MalformedFile}
    \cup { JsonFile(d) : d \in {JsonNull, JsonObject(<<"k">>, <<JsonNull>>)} }
    \cup { SaveJson(d) : d \in RecordLists }

LoadJsonCalls == { [fn |-> "load_json", input |-> f] : f \in Files }

LoadJsonCall ==
    /\ call.fn = "load_json"
    /\ ~ret.returned
    /\ ret' = Returned(LoadJson(call.input))
    /\ UNCHANGED <<schedVars, resVars, loadVars, call>>

\* ------------------------------------ FileHandler.analyze_json_data

\* A result as analyze_json_data reads it: the success key ("absent" when
\* the dict has none) and the length of its text (0 for no or empty text).
AnalyzedResults ==
    { [success |-> "true", text_length |-> 5],
      [success |-> "true", text_length |-> 0],
      [success |-> "false", text_length |-> 0],
      [success |-> "absent", text_length |-> 0] }

RECURSIVE SumOf(_)
SumOf(s) == IF s = <<>> THEN 0 ELSE Head(s) + SumOf(Tail(s))

\* round(a / b * 100, 1) in tenths, for b > 0: the nearest tenth of a per
\* cent, a tie going to the even tenth.
RoundedRate(a, b) ==
    LET q == (1000 * a) \div b
        r == (1000 * a) % b
    IN  IF 2 * r < b THEN q
        ELSE IF 2 * r > b THEN q + 1
        ELSE IF q % 2 = 0 THEN q ELSE q + 1

Analysis(keys, total, successful, failed, rate, chars, avg) ==
    [keys |-> keys, total_count |-> total, successful |-> successful,
     failed |-> failed, success_rate |-> rate, total_characters |-> chars,
     average_chars_per_article |-> avg]

AllKeys ==
    {"total_count", "successful", "failed", "success_rate",
     "total_characters", "average_chars_per_article"}

\* An analysis that counts as successful the results that have a text.
AnalyzeJsonDataCountsText(data) ==
    IF data = <<>> THEN Analysis({"total_count"}, 0, 0, 0, 0, 0, 0)
    ELSE LET total_count == Len(data)
             HasText(item) == item.success = "true" /\ item.text_length > 0
             with_text == SelectSeq(data, HasText)
             text_lengths == [i \in DOMAIN with_text |-> with_text[i].text_length]
             successful == Len(with_text)
             total_chars == SumOf(text_lengths)
         IN  Analysis(AllKeys, total_count, successful, total_count - successful,
                      RoundedRate(successful, total_count), total_chars,
                      IF text_lengths # <<>> THEN total_chars \div Len(text_lengths) ELSE 0)

\* analyze_json_data; success_rate is held in tenths of a per cent.
AnalyzeJsonData(data) ==
    IF data = <<>> THEN Analysis({"total_count"}, 0, 0, 0, 0, 0, 0)
    ELSE LET total_count == Len(data)
             IsSuccess(item) == item.success = "true"
             HasText(item) == item.success = "true" /\ item.text_length > 0
             with_text == SelectSeq(data, HasText)
             text_lengths == [i \in DOMAIN with_text |-> with_text[i].text_length]
             successful == Len(SelectSeq(data, IsSuccess))
             total_chars == SumOf(text_lengths)
         IN  Analysis(AllKeys, total_count, successful, total_count - successful,
                      IF total_count > 0 THEN RoundedRate(successful, total_count) ELSE 0,
                      total_chars,
                      IF text_lengths # <<>> THEN total_chars \div Len(text_lengths) ELSE 0)

AnalyzeCalls ==
    { [fn |-> "analyze_json_data", input |-> d] :
        d \in UNION { [1..n -> AnalyzedResults] : n \in 0..MaxTasks } }

AnalyzeJsonDataCall ==
    /\ call.fn = "analyze_json_data"
    /\ ~ret.returned
    /\ ret' = Returned(AnalyzeJsonData(call.input))
    /\ UNCHANGED <<schedVars, resVars, loadVars, call>>

\* ------------------------------ SitemapScraper._fetch_sitemap_content

\* What one urlopen of the sitemap URL gives: an exception, or a body that
\* is plain bytes, the gzip of bytes, or a gzip stream cut short.
NoBytes == [kind |-> "none", bytes |-> ""]
Responses ==
    {[kind |-> "error", bytes |-> ""]}
    \cup { [kind |-> k, bytes |-> b] : k \in {"plain", "gzip"}, b \in {"xml1", "xml2"} }
    \cup {[kind |-> "cut_gzip", bytes |-> "xml1"]}

\* _fetch_sitemap_content for a URL that ends in "xml.gz" or not, given what
\* the first and, if it comes to it, the second urlopen answer. The bytes
\* returned are tagged "plain" or, when still compressed, "gzip"; NoBytes is
\* None.
FetchSitemapContent(is_gz, first, second) ==
    IF first.kind = "error" THEN NoBytes
    ELSE IF ~is_gz THEN [kind |-> IF first.kind = "plain" THEN "plain" ELSE "gzip",
                         bytes |-> first.bytes]
    ELSE CASE first.kind = "gzip" -> [kind |-> "plain", bytes |-> first.bytes]
           [] first.kind = "cut_gzip" -> NoBytes
           [] first.kind = "plain" ->
                  IF second.kind = "error" THEN NoBytes
                  ELSE [kind |-> IF second.kind = "plain" THEN "plain" ELSE "gzip",
                        bytes |-> second.bytes]

FetchCalls ==
    { [fn |-> "_fetch_sitemap_content",
       input |-> [is_gz |-> g, first |-> a, second |-> b]] :
        g \in BOOLEAN, a \in Responses, b \in Responses }

FetchSitemapContentCall ==
    /\ call.fn = "_fetch_sitemap_content"
    /\ ~ret.returned
    /\ ret' = Returned(FetchSitemapContent(call.input.is_gz, call.input.first,
                                           call.input.second))
    /\ UNCHANGED <<schedVars, resVars, loadVars, call>>

FnInit ==
    /\ \/ call \in ProcessCalls
       \/ call \in SaveLoadCalls
       \/ call \in LoadJsonCalls
       \/ call \in AnalyzeCalls
       \/ call \in FetchCalls
    /\ ret = NotReturned

FnNext ==
    \/ ProcessSingleArticleCall
    \/ SaveThenLoadCall
    \/ LoadJsonCall
    \/ AnalyzeJsonDataCall
    \/ FetchSitemapContentCall

\* ------------------------------------------------------ specifications

\* The resolver at rest, for the scheduler's specification.
ResolverIdle ==
    /\ sitemaps = [u \in SitemapUrls |-> [kind |-> "leaf", locs |-> {}]]
    /\ pool_size = 1
    /\ calls = <<>>
    /\ headers = InitHeaders
    /\ sent_headers = <<>>

\* The scheduler at rest, for the resolver's specification.
SchedIdle ==
    /\ input_file = "loaded"
    /\ articles = <<>>
    /\ max_workers = 1
    /\ cadence = 1
    /\ checkpoint_file = FALSE
    /\ pc = "idle"
    /\ health = "none"
    /\ submitted = 0
    /\ queue = <<>>
    /\ running = [w \in 1..1 |-> 0]
    /\ requests = <<>>
    /\ future = <<>>
    /\ yielded = {}
    /\ results = <<>>
    /\ ckpt = NoFile
    /\ lastGood = <<>>
    /\ saveResult = "none"
    /\ writeFailed = FALSE
    /\ interrupted = FALSE
    /\ lock = "free"
    /\ worker_last = [w \in 1..1 |-> "none"]
    /\ status = "running"
    /\ output = NoFile

\* The loader at rest, for the other specifications.
LoadIdle ==
    /\ raw_data = <<>>
    /\ min_year = 2015
    /\ limit = NoLimit
    /\ utc_offset = 0
    /\ years = <<>>
    /\ task_list = <<>>
    /\ done_steps = {}

\* No single call, for the other specifications.
FnIdle ==
    /\ call = NoCall
    /\ ret = NotReturned

Init == SchedInit /\ ResolverIdle /\ LoadIdle /\ FnIdle

Next == SchedNext

\* A run of the article scraper.
Spec == Init /\ [][Next]_vars

ResolverStart == ResolverInit /\ SchedIdle /\ LoadIdle /\ FnIdle

\* A run of the sitemap resolver from the root URL.
ResolverSpec == ResolverStart /\ [][ResolverNext]_vars

\* The same run with threads that are scheduled: a step that stays possible
\* is taken in the end.
ResolverFairSpec == ResolverStart /\ [][ResolverNext]_vars /\ WF_vars(ResolverNext)

LoadStart == LoadInit /\ SchedIdle /\ ResolverIdle /\ FnIdle

\* load_article_urls and the year derivation applied to a sitemap data file.
LoadSpec == LoadStart /\ [][LoadNext]_vars

FnStart == FnInit /\ SchedIdle /\ ResolverIdle /\ LoadIdle

\* One call of a function that shares no state with the rest.
FnSpec == FnStart /\ [][FnNext]_vars

\* -------------------------------------------------- scheduler: claims

\* scrape_articles has returned its results list to main().
ScrapeReturned ==
    \/ pc = "save_output"
    \/ pc = "exit" /\ status \in {"success", "save_failed"}

SuccessCount == Cardinality({ i \in 1..Len(results) : results[i].success })
FailureCount == Cardinality({ i \in 1..Len(results) : ~results[i].success })

\* C1: once scrape_articles has returned, the result list has exactly one
\* entry per submitted task, and successes plus failures equal the number of
\* tasks, for every pool size, outcome mix and completion order.
ResultCountEqualsTaskCount ==
    ScrapeReturned =>
        /\ Len(results) = N
        /\ submitted = N
        /\ SuccessCount + FailureCount = N

\* A completed run of three tasks on two workers with both outcomes present.
ResultCountWitness ==
    /\ ScrapeReturned
    /\ N = 3
    /\ max_workers = 2
    /\ SuccessCount > 0
    /\ FailureCount > 0

\* The failures the claim names: the render call times out or answers with a
\* non-success response, or the extraction yields no text.
Failing(env) ==
    \/ env.render \in {"timeout", "http_error", "api_fail", "empty_html"}
    \/ env.extract \in {"no_text", "extract_exc"}

FailingTasks == { t \in Tasks : Failing(articles[t]) }

CheckpointAlwaysComplete == ckpt.exists => ckpt.complete

\* C4: after the interrupt no task that had not started is started: no render
\* request is issued for a task once the interrupt was raised.
NoTaskStartsAfterInterrupt ==
    [][interrupted => \A t \in Tasks : requests'[t] = requests[t]]_vars

\* C5: an interrupt, also one arriving during a checkpoint write, leaves the
\* checkpoint file equal to the last successfully written checkpoint.
InterruptKeepsLastCheckpoint ==
    (interrupted /\ ~writeFailed /\ lastGood # <<>>) =>
        ckpt = [exists |-> TRUE, complete |-> TRUE, data |-> lastGood]

\* C6: when a run with a checkpoint path completes, the checkpoint file holds
\* every result of the run.
FinalCheckpointHoldsAllResults ==
    (ScrapeReturned /\ checkpoint_file /\ ~writeFailed) =>
        ckpt = [exists |-> TRUE, complete |-> TRUE, data |-> results]

\* C7: whenever the count of results reaches a multiple of the cadence and a
\* checkpoint path is configured, a checkpoint write is made, and a write that
\* completes has replaced the file by the full list of results so far, in the
\* order of the results list.
CheckpointIsFullSnapshot ==
    /\ (pc = "sleep" /\ FlushDue(Len(results))) =>
          /\ saveResult # "none"
          /\ saveResult = "ok" =>
                ckpt = [exists |-> TRUE, complete |-> TRUE, data |-> results]
    /\ (pc = "sleep" /\ ~FlushDue(Len(results))) => saveResult = "none"

\* A second or later flush has completed: the file held an earlier snapshot
\* and now holds more than the last `cadence` results.
CheckpointSnapshotWitness ==
    /\ pc = "sleep"
    /\ saveResult = "ok"
    /\ Len(results) > cadence
    /\ ckpt.data = results

\* C8: a render request is issued only after the readiness query answered
\* ready, and a readiness query with any other answer ends the run with no
\* task submitted and no request issued.
RenderOnlyAfterReady ==
    /\ (submitted > 0 \/ \E t \in Tasks : requests[t] > 0) => health = "ready"
    /\ health \in {"not_ready", "http_error", "unreachable"} =>
          /\ pc = "exit"
          /\ status = "not_ready"
          /\ submitted = 0
          /\ \A t \in Tasks : requests[t] = 0

RenderAfterReadyWitness ==
    /\ health = "ready"
    /\ \E t \in Tasks : requests[t] > 0

\* --------------------------------------------------- resolver: claims

\* C9: expansion never fetches a child URL equal to the URL of an ancestor
\* index on the chain from the root to that child.
NoAncestorRefetch ==
    \A p \in DOMAIN calls : \A i \in 1..(Len(p) - 1) : p[i] # Url(p)

\* C10: recursive resolution terminates. The documents are fixed, so it
\* terminates exactly if no chain of nested resolutions is longer than the
\* number of sitemap URLs: a longer chain holds some URL twice, and what
\* follows the first occurrence follows the second again.
ResolutionDepthBounded ==
    \A p \in DOMAIN calls : Len(p) <= Cardinality(SitemapUrls)

\* The outermost call, scrape_sitemap(root URL), and its return value.
RootCall == <<RootUrl>>
RootReturned == RootCall \in DOMAIN calls /\ calls[RootCall].status = "done"
RootOut == calls[RootCall].out

Occurrences(r, s) == Cardinality({ i \in DOMAIN s : s[i] = r })

\* The child sitemaps the root document lists, when it is an index.
RootChildren ==
    IF sitemaps[RootUrl].kind = "index"
    THEN sitemaps[RootUrl].locs \ {RootUrl}
    ELSE {}

RootOverLeaves ==
    /\ sitemaps[RootUrl].kind = "index"
    /\ \A c \in RootChildren : sitemaps[c].kind = "leaf"

RECURSIVE LeafUrlCount(_)
LeafUrlCount(S) ==
    IF S = {} THEN 0
    ELSE LET c == CHOOSE x \in S : TRUE
         IN  Cardinality(sitemaps[c].locs) + LeafUrlCount(S \ {c})

FailedKinds == {"fetch_error", "parse_error", "bad_entry"}

\* C12: whenever a child or leaf sitemap fails to fetch or parse, the output
\* holds an error record carrying that sitemap's URL.
FailedSitemapLeavesErrorRecord ==
    RootReturned =>
        \A q \in DOMAIN calls :
            (q # RootCall /\ calls[q].status \in {"done", "raised"}
                /\ sitemaps[Url(q)].kind \in FailedKinds)
            => \E i \in DOMAIN RootOut :
                  RootOut[i].errors /\ RootOut[i].sitemap = Url(q)

\* Index calls that have returned and had a child whose fetch or parse failed.
ReturnedWithFailedChild ==
    { p \in DOMAIN calls :
        /\ calls[p].status = "done"
        /\ sitemaps[Url(p)].kind = "index"
        /\ \E q \in ChildCalls(p) : sitemaps[Url(q)].kind \in FailedKinds }

RootFinished == RootCall \in DOMAIN calls /\ calls[RootCall].status \in {"done", "raised"}

\* C13: the failure of one child removes or alters no record of its siblings:
\* the index returns every record each sibling returned; and the resolution
\* goes on to its end, halted only where the model stops following a chain.
SiblingRecordsKept ==
    /\ \A p \in ReturnedWithFailedChild : \A q \in ChildCalls(p) :
          calls[q].status = "done" =>
              \A i \in DOMAIN calls[q].out :
                  Occurrences(calls[q].out[i], calls[p].out)
                      >= Occurrences(calls[q].out[i], calls[q].out)
    /\ (~RootFinished /\ ~ENABLED ResolverNext) =>
          \E p \in DOMAIN calls : Len(p) = MaxDepth /\ calls[p].pending # <<>>

\* The root has returned the two records of a leaf whose sibling failed to
\* fetch.
SiblingRecordsWitness ==
    /\ RootReturned
    /\ RootCall \in ReturnedWithFailedChild
    /\ \E q \in ChildCalls(RootCall) : sitemaps[Url(q)].kind = "fetch_error"
    /\ \E q \in ChildCalls(RootCall) :
          /\ sitemaps[Url(q)] = [kind |-> "leaf", locs |-> {"a", "b"}]
          /\ \A l \in {"a", "b"} :
                Occurrences([loc |-> l, sitemap |-> Url(q), errors |-> FALSE], RootOut) = 1

\* C14: no two records of the flattened output have the same loc.
NoDuplicateLoc ==
    RootReturned =>
        \A i \in DOMAIN RootOut : \A j \in DOMAIN RootOut :
            (i # j /\ ~RootOut[i].errors /\ ~RootOut[j].errors)
            => RootOut[i].loc # RootOut[j].loc

\* ----------------------------------------------------- loader: claims

LoadReturned == "load" \in done_steps
YearsDerived == "derive" \in done_steps

\* C15: the task list load_article_urls builds holds no two tasks with the
\* same url, so that every result's url is the url of exactly one task.
TaskUrlsDistinct ==
    LoadReturned =>
        \A i \in DOMAIN task_list : \A j \in DOMAIN task_list :
            i # j => task_list[i].url # task_list[j].url

\* A lastmod that some method can read: a number, or a string that is a date.
LastmodReadable(lastmod) ==
    \/ lastmod.type = "int"
    \/ lastmod.type = "str" /\ lastmod.form \in {"utc", "digits", "iso"}

\* No archive-style sitemap path, and lastmod missing or unparseable.
Underivable(sitemap, lastmod) ==
    ~Contains(sitemap, "archive-") /\ ~LastmodReadable(lastmod)

\* C16: every task comes from a record with a non-empty url, no errors
\* marker and a derived year that is defined and at least min_year; a record
\* whose year no method can derive never becomes a task.
TasksComeFromEligibleRecords ==
    LoadReturned =>
        /\ \A k \in DOMAIN task_list :
              /\ task_list[k].url # ""
              /\ task_list[k].year >= min_year
              /\ ~Underivable(task_list[k].sitemap, task_list[k].lastmod)
              /\ \E i \in DOMAIN raw_data :
                    /\ raw_data[i].loc = task_list[k].url
                    /\ raw_data[i].sitemap = task_list[k].sitemap
                    /\ raw_data[i].lastmod = task_list[k].lastmod
                    /\ ~raw_data[i].errors
                    /\ ExtractArticleYear(raw_data[i], utc_offset) = SomeYear(task_list[k].year)
        /\ Len(task_list) <=
              Cardinality({ i \in DOMAIN raw_data : raw_data[i].loc # "" /\ ~raw_data[i].errors })

\* A file with a record that has an errors marker, a record without url and
\* a record whose year cannot be derived has given tasks, fewer than records.
EligibleRecordsWitness ==
    /\ LoadReturned
    /\ task_list # <<>>
    /\ \E i \in DOMAIN raw_data : raw_data[i].errors
    /\ \E i \in DOMAIN raw_data :
          /\ raw_data[i].loc # "" /\ ~raw_data[i].errors
          /\ ~ExtractArticleYear(raw_data[i], utc_offset).defined
    /\ Len(task_list) < Len(raw_data)

\* The path has, after its first "archive-", a numeral, "-" and a numeral.
FollowsArchiveConvention(sitemap) ==
    /\ Contains(sitemap, "archive-")
    /\ LET k == FirstCut(sitemap, "archive-")
       IN  /\ k + 3 <= Len(sitemap)
           /\ sitemap[k + 1] \in DOMAIN Numerals
           /\ sitemap[k + 2] = "-"
           /\ sitemap[k + 3] \in DOMAIN Numerals
ConventionYear(sitemap) == Numerals[sitemap[FirstCut(sitemap, "archive-") + 1]]

\* C17: when the sitemap path follows the archive-<year>-<month> convention,
\* the derived year is the year in the path, whatever lastmod says.
ArchivePathYearWins ==
    YearsDerived =>
        \A i \in DOMAIN raw_data :
            FollowsArchiveConvention(raw_data[i].sitemap) =>
                /\ years[i].article = SomeYear(ConventionYear(raw_data[i].sitemap))
                /\ years[i].path.ok
                /\ years[i].path.year = ConventionYear(raw_data[i].sitemap)

\* A record of archive-2019-3 with lastmod "2020-01-01 00:00:00 UTC" has
\* been given the year 2019.
ArchivePathWitness ==
    /\ YearsDerived
    /\ \E i \in DOMAIN raw_data :
          /\ raw_data[i].sitemap = ArchivePath("2019", "3")
          /\ raw_data[i].lastmod = UtcString(1577836800)
          /\ years[i].article = SomeYear(2019)

\* C18: for every instant, the "UTC" string and the epoch-milliseconds
\* encoding of it are given the same year, the UTC calendar year, whatever
\* the host's time zone.
EncodingsGiveUtcYear ==
    YearsDerived =>
        \A i \in DOMAIN raw_data : \A s \in Instants :
            (/\ ~Contains(raw_data[i].sitemap, "archive-")
             /\ raw_data[i].lastmod \in {UtcString(s), EpochMs(s)})
            => years[i].article = SomeYear(CalendarYear(s, 0))

OfYear(s, y) ==
    LET Is(t) == t.year = y
    IN  SelectSeq(s, Is)

IsPrefix(a, b) == Len(a) <= Len(b) /\ a = SubSeq(b, 1, Len(a))

SortedTasks == SortByYear(FilterArticles(raw_data, min_year, utc_offset))

\* C20: for every limit >= 0, 0 included, the returned list is the first
\* min(limit, n) tasks of the sorted list; without a limit it is all n.
LimitKeepsFirstTasks ==
    LoadReturned =>
        IF limit.given
        THEN task_list = SubSeq(SortedTasks, 1,
                                IF limit.value < Len(SortedTasks)
                                THEN limit.value ELSE Len(SortedTasks))
        ELSE task_list = SortedTasks

\* ----------------------------------------------- single calls: claims

\* C21: a result has success = true only if the extraction produced
\* non-trivial text: it is a failure whenever the text is empty or the
\* placeholder, or the extractor's own success flag is false.
SuccessOnlyWithText ==
    (call.fn = "process_single_article" /\ ret.returned /\ ret.value.success) =>
        LET extracted_data == ExtractFromHtml(call.input.env.extract)
        IN  /\ call.input.env.render = "html"
            /\ extracted_data.text \notin {"", "No text extracted"}
            /\ extracted_data.extraction_success

RECURSIVE NaNToNull(_)
\* obj with every nan and every missing sentinel replaced by None, and
\* nothing else changed.
NaNToNull(obj) ==
    CASE obj.t \in {"dict", "list"} ->
             [obj EXCEPT !.items = [i \in DOMAIN obj.items |-> NaNToNull(obj.items[i])]]
      [] obj.t \in {"nan", "nat"} -> PyNone
      [] OTHER -> obj

\* C22: save_json then load_json yields the original records with every
\* not-a-number / missing sentinel, at any depth, replaced by null and
\* nothing else changed.
SaveLoadRoundTrip ==
    (call.fn = "save_load" /\ ret.returned) => ret.value = NaNToNull(call.input)

\* C23: from what load_json returns the caller can tell a missing file from
\* a malformed one, and both from every successfully loaded value.
LoadJsonSignalsDistinct ==
    (call.fn = "load_json" /\ ret.returned) =>
        \A other \in Files :
            (other.kind # call.input.kind) => LoadJson(other) # ret.value

Abs(x) == IF x < 0 THEN 0 - x ELSE x

\* C24: analyze_json_data divides by nothing that is zero: for an empty list
\* it returns total_count = 0 alone; for N >= 1 results of which S have
\* success = true it returns N, S, N - S and S/N*100 rounded to a tenth.
AnalyzeCountsAndRate ==
    (call.fn = "analyze_json_data" /\ ret.returned) =>
        LET n == Len(call.input)
            s == Cardinality({ i \in DOMAIN call.input : call.input[i].success = "true" })
        IN  IF n = 0
            THEN ret.value.keys = {"total_count"} /\ ret.value.total_count = 0
            ELSE /\ ret.value.total_count = n
                 /\ ret.value.successful = s
                 /\ ret.value.failed = n - s
                 /\ 2 * Abs(ret.value.success_rate * n - 1000 * s) <= n

\* Three results, two of them successes and one of these without text, were
\* analyzed: 66.7 per cent.
AnalyzeWitness ==
    /\ call.fn = "analyze_json_data"
    /\ ret.returned
    /\ Len(call.input) = 3
    /\ ret.value.successful = 2
    /\ ret.value.success_rate = 667
    /\ \E i \in DOMAIN call.input :
          call.input[i] = [success |-> "true", text_length |-> 0]

\* C25: for a payload that is no gzip, served at a URL that announces
\* compression, the fetch returns the very bytes it received, as plain XML.
GzipFallbackKeepsBytes ==
    (/\ call.fn = "_fetch_sitemap_content" /\ ret.returned
     /\ call.input.is_gz /\ call.input.first.kind = "plain")
    => ret.value = [kind |-> "plain", bytes |-> call.input.first.bytes]

\* ------------------------------------- scheduler: claims on the pool

\* The render outcomes that are a timeout or a non-success response.
RenderFails(env) == env.render \in {"timeout", "http_error", "api_fail"}

\* C26: each task causes at most one fetch-and-render request per run; a
\* non-success response or a timeout yields a failed result for the task at
\* once, and the request is never made again.
OneRequestPerTask ==
    \A t \in Tasks :
        /\ requests[t] <= 1
        /\ (future[t] # NoResult /\ RenderFails(articles[t])) =>
              /\ requests[t] = 1
              /\ future[t] = CreateFailedResult(t, "Failed to get HTML from API")

\* A run of several tasks ended with a task whose render call timed out.
OneRequestWitness ==
    /\ pc = "exit"
    /\ status = "success"
    /\ N >= 2
    /\ \E t \in Tasks :
          /\ articles[t].render = "timeout"
          /\ requests[t] = 1
          /\ ~future[t].success

\* C27: a worker that has finished a task waits the inter-task delay before
\* it starts its next task: no worker issues two render requests without a
\* delay of its own in between.
WorkerDelaysBetweenTasks ==
    [][\A w \in Workers :
          (running[w] = 0 /\ running'[w] # 0) => worker_last[w] # "task"]_vars

\* C28: a failed checkpoint write does not abort the run: the run goes on,
\* every task is processed, the flushes that come due later are attempted,
\* and the list scrape_articles returns is complete and holds what the
\* futures hold, whatever became of the checkpoint file.
CheckpointFailureDoesNotAbort ==
    (writeFailed /\ ~interrupted) =>
        /\ pc # "exit" => ENABLED SchedStep
        /\ (pc = "sleep" /\ FlushDue(Len(results))) => saveResult \in {"ok", "failed"}
        /\ pc = "exit" =>
              /\ status \in {"success", "save_failed"}
              /\ { results[i].url : i \in 1..Len(results) } = Tasks
              /\ \A i \in 1..Len(results) : results[i] = future[results[i].url]

\* A run in which a checkpoint write failed and a later one succeeded, ended
\* with all results returned and saved.
CheckpointFailureWitness ==
    /\ writeFailed
    /\ pc = "exit"
    /\ status = "success"
    /\ saveResult = "ok"
    /\ lastGood = results
    /\ Len(results) = N

\* C29: for a fixed task list and collaborators that answer each task the
\* same way every time, every interleaving of the workers, for every pool
\* size, ends with the same results when the list is read as a set keyed by
\* url: the result that process_single_article gives for each task.
ResultContentDeterministic ==
    ScrapeReturned =>
        { results[i] : i \in 1..Len(results) } =
            { ProcessSingleArticle(t, articles[t]) : t \in Tasks }

\* Two workers returned the results out of submission order, a success and
\* a failed extraction among them.
ResultContentWitness ==
    /\ ScrapeReturned
    /\ max_workers = 2
    /\ N >= 2
    /\ results[1].url # 1
    /\ \E t \in Tasks : articles[t].extract = "no_text"
    /\ \E i \in 1..Len(results) : results[i].success

\* C30 as stated: every append to the results list, with its decision
\* whether a flush is due, is made by a thread that holds the lock.
AppendsHoldTheLock ==
    [][results' # results => lock # "free"]_vars

\* C30: no two threads append to the results list or decide and perform a
\* flush at the same time, because one thread does all of it: a step that
\* appends, decides on a flush or writes the checkpoint is never a step of a
\* pool thread. The lock is never taken.
OnlyMainAppendsAndFlushes ==
    [][/\ (results' # results \/ ckpt' # ckpt \/ saveResult' # saveResult) =>
             (running' = running /\ future' = future /\ queue' = queue)
       /\ lock' = "free"]_vars

\* The main thread is writing a checkpoint while a pool thread runs a task.
MainFlushesWhileWorkerRuns ==
    /\ pc = "save_write"
    /\ Len(ckpt.data) < Len(results)
    /\ \E w \in Workers : running[w] # 0

\* ------------------------------------------ resolver: claims on the pool

\* The resolutions of child sitemaps that occupy a pool thread: scrape_sitemap
\* was called on the child and has not returned.
RunningResolutions ==
    { q \in DOMAIN calls : Len(q) > 1 /\ calls[q].status \in {"fetching", "waiting"} }

\* C31: during recursive expansion with pool size W, at no time are more
\* than W resolutions of child sitemaps running, also when child sitemaps are
\* indexes that expand further.
ResolutionsWithinPool ==
    Cardinality(RunningResolutions) <= pool_size

\* ------------------------------------- loader: claims on the two chains

\* Whether the sitemap path gives _extract_article_year a year.
PathGivesYear(sitemap) ==
    /\ Contains(sitemap, "archive-")
    /\ PyInt(SplitHead(SplitSecond(sitemap, "archive-"), "-")).ok

\* The records the comparison is made over: the sitemap path is text, and
\* lastmod is absent, a string or a number in range.
TextAndTimeRecord(item) ==
    /\ item.sitemap # NullSitemap
    /\ \/ item.lastmod.type \in {"none", "str"}
       \/ item.lastmod.type = "int" /\ item.lastmod.form = ""

\* C32: _extract_article_year and DateExtractor.extract_year_month follow
\* the same precedence and give every record the same year: for every
\* sitemap path (archive-style, malformed archive-style, other) and every
\* lastmod encoding, both return the same year or both return none.
YearChainsAgree ==
    YearsDerived =>
        \A i \in DOMAIN raw_data :
            TextAndTimeRecord(raw_data[i]) =>
                /\ years[i].article.defined = years[i].extractor.defined
                /\ years[i].article.defined =>
                      years[i].article.year = years[i].extractor.year

\* C33: for a record whose sitemap path yields no year, the year comes from
\* lastmod by trying the "UTC" string form, the epoch-milliseconds number,
\* then a generic date-string parse, so that an ISO 8601 string derives the
\* year it shows; no value is returned only if every attempt fails.
LastmodAttemptsInOrder ==
    YearsDerived =>
        \A i \in DOMAIN raw_data :
            (~PathGivesYear(raw_data[i].sitemap) /\ TextAndTimeRecord(raw_data[i])) =>
                /\ LastmodReadable(raw_data[i].lastmod) => years[i].article.defined
                /\ raw_data[i].lastmod.form \in {"utc", "iso"} =>
                      years[i].article = SomeYear(CalendarYear(raw_data[i].lastmod.secs, 0))

\* C38: load_article_urls never raises on an array of records: whatever the
\* sitemap field and the JSON type of lastmod, year and date derivation
\* return a value or none and the record becomes a task or is skipped.
LoadNeverRaises ==
    /\ "load_raised" \notin done_steps
    /\ YearsDerived =>
          \A i \in DOMAIN raw_data :
              (raw_data[i].loc # "" /\ ~raw_data[i].errors) => ~years[i].article_raised

\* C39: a task whose year was derived from its lastmod, an epoch-
\* milliseconds number or a "YYYY-MM-DD HH:MM:SS UTC" string, has an
\* article_date, and that date falls in the task's year.
TaskDateInDerivedYear ==
    LoadReturned =>
        \A k \in DOMAIN task_list :
            (/\ ~PathGivesYear(task_list[k].sitemap)
             /\ \/ task_list[k].lastmod.type = "int" /\ task_list[k].lastmod.form = ""
                \/ task_list[k].lastmod.type = "str" /\ task_list[k].lastmod.form = "utc")
            => task_list[k].article_date = SomeYear(task_list[k].year)

\* ------------------------------------ scheduler: claims on how a run ends

\* C34: a run that is not interrupted and is given a missing or malformed
\* input file, tasks that fail, or checkpoint writes that fail, ends with the
\* aggregate output written unless the readiness query failed; and a run
\* that ends on the readiness query has dispatched no task. (An input that
\* holds no task, and a failed write of the output itself, are set aside.)
OnlyReadinessIsFatal ==
    /\ (/\ pc = "exit"
        /\ ~interrupted
        /\ status \notin {"not_ready", "save_failed"}
        /\ ~(input_file = "loaded" /\ N = 0)) =>
           (output.exists /\ output.complete)
    /\ (pc = "exit" /\ status = "not_ready") => submitted = 0

\* C35: an interrupted run never reports success and ends with the
\* interrupted status, and the output file is never written from a results
\* list that lacks some task's result.
InterruptReportsIncomplete ==
    interrupted =>
        /\ status # "success"
        /\ pc = "exit" => status = "interrupted"
        /\ output.exists =>
              /\ Len(results) = N
              /\ \E k \in 0..Len(results) : output.data = SubSeq(results, 1, k)

\* A run interrupted with some, not all, results collected has ended.
InterruptedMidRun ==
    /\ interrupted
    /\ pc = "exit"
    /\ status = "interrupted"
    /\ 0 < Len(results)
    /\ Len(results) < N
    /\ output = NoFile

\* ------------------------------------ resolver: claims on shared state

\* C36: the headers a request for a sitemap URL carries depend on that URL
\* alone: two requests for one URL carry the same headers, and a request for
\* a plain-XML sitemap carries the headers the scraper was made with,
\* whatever was fetched before it.
HeadersDependOnUrlOnly ==
    \A q \in DOMAIN sent_headers :
        /\ Url(q) \notin GzUrls => sent_headers[q] = InitHeaders
        /\ \A r \in DOMAIN sent_headers :
              Url(r) = Url(q) => sent_headers[r] = sent_headers[q]

\* The sitemap URLs an index at url lists, its own left out.
ChildrenOf(url) ==
    IF sitemaps[url].kind = "index" THEN sitemaps[url].locs \ {url} ELSE {}

RECURSIVE DescendantsWithin(_, _)
\* The URLs reached from url by at most n steps from an index to a child.
DescendantsWithin(url, n) ==
    IF n = 0 THEN {}
    ELSE ChildrenOf(url)
         \cup UNION { DescendantsWithin(v, n - 1) : v \in ChildrenOf(url) }

\* What the root index reaches holds no index that reaches itself.
AcyclicFromRoot ==
    \A u \in {RootUrl} \cup DescendantsWithin(RootUrl, MaxUrls) :
        u \notin DescendantsWithin(u, MaxUrls)

RootEnded ==
    <<RootUrl>> \in DOMAIN calls /\ calls[<<RootUrl>>].status \in {"done", "raised"}

\* C37: for an acyclic arrangement of indexes of any depth and any pool
\* size, the expansion is never stuck before the root call has ended (a call
\* that waits for its children never keeps them from running), and it ends.
ExpansionTerminates ==
    /\ [](AcyclicFromRoot /\ ~RootEnded => ENABLED ResolverNext)
    /\ (AcyclicFromRoot => <>RootEnded)

\* With a pool of one thread, an index in an index in the root index has
\* been expanded down to the leaf's records and the root call has returned.
NestedIndexesExpanded ==
    /\ pool_size = 1
    /\ AcyclicFromRoot
    /\ <<RootUrl, 2, 3>> \in DOMAIN calls
    /\ sitemaps[3].kind = "leaf"
    /\ RootEnded
    /\ \E i \in DOMAIN calls[<<RootUrl>>].out : calls[<<RootUrl>>].out[i].sitemap = 3

====
